---- MODULE Spec2Model ----
(***************************************************************************)
(* Scoring API (api.py): the declarative field validators, the request     *)
(* classes and their clean()/is_valid() engine, check_auth and             *)
(* method_handler, and the retrying Storage client the tests exercise.     *)
(*                                                                         *)
(* Python values are records [ty, v]: ty is the Python type and v a        *)
(* sequence of strings -- the characters of a str (and of the decimal      *)
(* digits of an int), the element types of a list, the keys of a dict.     *)
(* Field names, error messages and status names are TLA+ strings.          *)
(***************************************************************************)
EXTENDS Integers, Sequences, FiniteSets, TLC

VARIABLES
    now,          \* the wall clock datetime.now() reads: [year, month, day, hour]
    ticks,        \* hours the clock has advanced since the start of the run
    \* ---- one request object (BaseRequest and subclasses) ----
    cls,          \* its class name
    fields,       \* Class.fields of each request class in use: the descriptors in
                  \* the order the metaclass collected them
    request,      \* self.request: the raw input
    self,         \* the object: [errors: self._errors, has_errors: self._has_errors,
                  \* attrs: the attributes setattr(self, field.name, value) set]
    history,      \* one entry per is_valid() call: what it returned and left
    \* ---- the dispatcher (do_POST -> method_handler) ----
    pc,           \* "idle" | "received" | "done"
    body,         \* request['body']
    arguments,    \* the content of body['arguments'] when that is a dict
    ctx,          \* the context map handed to method_handler
    outcome,      \* res: what method_handler did (returned response, code; or raised),
                  \* at: the clock when it ran
    \* ---- one field parse (tests/test_fields.py) ----
    fkind,        \* the field class under test
    fvalue,       \* the value handed to parse
    fresult,      \* what parse did
    \* ---- the store client (tests/test_store.py) ----
    db,           \* the backend's content: key -> value or "nil"
    backend,      \* "up" | "flaky" | "down": how the backend's calls behave
    op,           \* the cache call in progress
    attempts,     \* underlying backend calls made by the call in progress
    ret           \* the finished call's return value

vars == <<now, ticks, cls, fields, request, self, history,
          pc, body, arguments, ctx, outcome, fkind, fvalue, fresult,
          db, backend, op, attempts, ret>>

objVars == <<cls, fields, request, self, history>>
srvVars == <<pc, body, arguments, ctx, outcome>>
fldVars == <<fkind, fvalue, fresult>>
stoVars == <<db, backend, op, attempts, ret>>

-----------------------------------------------------------------------------
(* Program constants *)

SALT == <<"O", "t", "u", "s">>
ADMIN_LOGIN == <<"a", "d", "m", "i", "n">>
ADMIN_SALT == <<"4", "2">>
OK == 200
BAD_REQUEST == 400
FORBIDDEN == 403
NOT_FOUND == 404
INVALID_REQUEST == 422
INTERNAL_ERROR == 500
AGE_LIMIT == 70

(* Bounds of the model *)

\* hours the clock may advance during a run
MaxTicks == 2
\* consecutive is_valid() calls on one request object
MaxCalls == 3

-----------------------------------------------------------------------------
(* Python values *)

Val(ty, v) == [ty |-> ty, v |-> v]

None == Val("none", <<>>)
\* no value: the key is not in the mapping
Absent == Val("absent", <<>>)
\* no instance attribute of that name
Unset == Val("unset", <<>>)
StrV(chars) == Val("str", chars)
IntV(digits) == Val("int", digits)
ListV(elemTypes) == Val("list", elemTypes)
DictV(keys) == Val("dict", keys)
EmptyTuple == Val("tuple", <<>>)

\* value in BaseRequest.empty_values, i.e. value == one of None, '', [], {}, ()
InEmptyValues(value) ==
    \/ value.ty = "none"
    \/ value.ty \in {"str", "list", "dict", "tuple"} /\ value.v = <<>>

\* str(value), as the regular expressions of EmailField and PhoneField see it
PyStr(value) ==
    CASE value.ty \in {"str", "int"} -> value.v
      [] value.ty = "none" -> <<"N", "o", "n", "e">>
      [] value.ty = "list" -> <<"[">> \o value.v \o <<"]">>
      [] value.ty = "dict" -> <<"{">> \o value.v \o <<"}">>
      [] OTHER -> <<"(", ")">>

DigitChars == <<"0", "1", "2", "3", "4", "5", "6", "7", "8", "9">>
IsDigit(c) == \E i \in 1..Len(DigitChars) : DigitChars[i] = c
DigitValue(c) == (CHOOSE i \in 1..Len(DigitChars) : DigitChars[i] = c) - 1

Letters ==
    {"a", "b", "c", "d", "e", "f", "g", "h", "i", "j", "k", "l", "m",
     "n", "o", "p", "q", "r", "s", "t", "u", "v", "w", "x", "y", "z",
     "A", "B", "C", "D", "E", "F", "G", "H", "I", "J", "K", "L", "M",
     "N", "O", "P", "Q", "R", "S", "T", "U", "V", "W", "X", "Y", "Z"}

AllIn(s, lo, hi, class) == \A i \in lo..hi : s[i] \in class

\* the value of a run of decimal digits
RECURSIVE ToNumber(_)
ToNumber(s) ==
    IF s = <<>> THEN 0
    ELSE 10 * ToNumber(SubSeq(s, 1, Len(s) - 1)) + DigitValue(s[Len(s)])

\* n in decimal, zero-padded to at least width characters (strftime's %d %m %H %Y)
RECURSIVE Pad(_, _)
Pad(n, width) ==
    IF width <= 1 /\ n < 10 THEN <<DigitChars[n + 1]>>
    ELSE Pad(n \div 10, width - 1) \o <<DigitChars[(n % 10) + 1]>>

-----------------------------------------------------------------------------
(* Field classes: parse(value) returns the parsed value or raises ValueError *)

Parsed(val) == [ok |-> TRUE, val |-> val, msg |-> ""]
\* raise ValueError(msg)
ValueError(msg) == [ok |-> FALSE, val |-> None, msg |-> msg]

CharField_parse(value) ==
    IF value.ty # "str"
    THEN ValueError("Expected str value the for field")
    ELSE Parsed(value)

ArgumentsField_parse(value) ==
    IF value.ty # "dict"
    THEN ValueError("Expected dict value for the field")
    ELSE Parsed(value)

EmailLocal == Letters \cup {"0", "1", "2", "3", "4", "5", "6", "7", "8", "9", "_", ".", "+", "-"}
EmailDomain == Letters \cup {"0", "1", "2", "3", "4", "5", "6", "7", "8", "9", "-"}
EmailTail == EmailDomain \cup {"."}

\* re.match(r'(^[a-zA-Z0-9_.+-]+@[a-zA-Z0-9-]+\.[a-zA-Z0-9-.]+$)', s)
EmailMatch(s) ==
    \E at \in 2..Len(s) : \E dot \in (at + 2)..(Len(s) - 1) :
        /\ s[at] = "@"
        /\ s[dot] = "."
        /\ AllIn(s, 1, at - 1, EmailLocal)
        /\ AllIn(s, at + 1, dot - 1, EmailDomain)
        /\ AllIn(s, dot + 1, Len(s), EmailTail)

EmailField_parse(value) ==
    IF ~EmailMatch(PyStr(value))
    THEN ValueError("Email validation failed")
    ELSE Parsed(value)

\* re.match(r'(^7[\d]{10}$)', s)
PhoneMatch(s) ==
    /\ Len(s) = 11
    /\ s[1] = "7"
    /\ \A i \in 2..11 : IsDigit(s[i])

PhoneField_parse(value) ==
    IF ~PhoneMatch(PyStr(value))
    THEN ValueError("Phone number validation failed")
    ELSE Parsed(value)

IsLeap(y) == (y % 4 = 0 /\ y % 100 # 0) \/ y % 400 = 0

DaysInMonth(m, y) ==
    IF m = 2 THEN (IF IsLeap(y) THEN 29 ELSE 28)
    ELSE IF m \in {4, 6, 9, 11} THEN 30 ELSE 31

\* strptime's %d: 3[0-1]|[1-2]\d|0[1-9]|[1-9]| [1-9]
DayMatch(s) ==
    \/ Len(s) = 2 /\ s[1] = "3" /\ s[2] \in {"0", "1"}
    \/ Len(s) = 2 /\ s[1] \in {"1", "2"} /\ IsDigit(s[2])
    \/ Len(s) = 2 /\ s[1] \in {"0", " "} /\ IsDigit(s[2]) /\ s[2] # "0"
    \/ Len(s) = 1 /\ IsDigit(s[1]) /\ s[1] # "0"

\* strptime's %m: 1[0-2]|0[1-9]|[1-9]
MonthMatch(s) ==
    \/ Len(s) = 2 /\ s[1] = "1" /\ s[2] \in {"0", "1", "2"}
    \/ Len(s) = 2 /\ s[1] = "0" /\ IsDigit(s[2]) /\ s[2] # "0"
    \/ Len(s) = 1 /\ IsDigit(s[1]) /\ s[1] # "0"

\* strptime's %Y: \d\d\d\d
YearMatch(s) == Len(s) = 4 /\ \A i \in 1..4 : IsDigit(s[i])

NoDate == [ok |-> FALSE, year |-> 0, month |-> 0, day |-> 0]

\* datetime(year, month, day): ValueError for a day the calendar does not hold
CalendarDate(d, m, y) ==
    IF y < 1 \/ d > DaysInMonth(m, y) THEN NoDate
    ELSE [ok |-> TRUE, year |-> y, month |-> m, day |-> d]

\* the three groups of the format's regular expression, converted
FromParts(ds, ms, ys) ==
    IF ~(DayMatch(ds) /\ MonthMatch(ms) /\ YearMatch(ys)) THEN NoDate
    ELSE CalendarDate(ToNumber(IF ds[1] = " " THEN Tail(ds) ELSE ds), ToNumber(ms), ToNumber(ys))

SplitAt(s, p1, p2) ==
    FromParts(SubSeq(s, 1, p1 - 1), SubSeq(s, p1 + 1, p2 - 1), SubSeq(s, p2 + 1, Len(s)))

Dots(s) == {i \in 1..Len(s) : s[i] = "."}
FirstDot(s) == CHOOSE i \in Dots(s) : \A j \in Dots(s) : i <= j
LastDot(s) == CHOOSE i \in Dots(s) : \A j \in Dots(s) : j <= i

\* the format '%d.%m.%Y' matched against the whole string: no group holds a dot,
\* so the string splits at its two dots
MatchDate(s) ==
    IF Cardinality(Dots(s)) # 2 THEN NoDate
    ELSE SplitAt(s, FirstDot(s), LastDot(s))

\* datetime.strptime(value, '%d.%m.%Y'): the date, or not ok where it raises
\* (TypeError for a value that is no string, ValueError for a string that does
\* not match the format or names no day of the calendar)
strptime(value) == IF value.ty # "str" THEN NoDate ELSE MatchDate(value.v)

\* a datetime object (midnight of the day), held as its '%d.%m.%Y' rendering
DateTime(y, m, d) == Val("datetime", Pad(d, 2) \o <<".">> \o Pad(m, 2) \o <<".">> \o Pad(y, 4))

\* DateField.parse after the strptime call: `except Exception` turns whatever
\* strptime raised into ValueError
DateResult(t) ==
    IF ~t.ok
    THEN ValueError("Date validation failed")
    ELSE Parsed(DateTime(t.year, t.month, t.day))

DateField_parse(value) == DateResult(strptime(value))

\* the comparison with >= in place of >
OverAgeLimit_ge(current, t) == current.year - t.year >= AGE_LIMIT

\* current.year - value.year > AGE_LIMIT
OverAgeLimit(current, t) == current.year - t.year > AGE_LIMIT

\* BirthDayField.parse after super().parse(value)
BirthDayResult(t, current) ==
    IF ~t.ok
    THEN ValueError("Date validation failed")
    ELSE IF OverAgeLimit(current, t)
    THEN ValueError("Age limit validation failed. Maximum value is 70 years.")
    ELSE Parsed(DateTime(t.year, t.month, t.day))

BirthDayField_parse(value, current) == BirthDayResult(strptime(value), current)

\* value in [UNKNOWN, MALE, FEMALE]
GenderField_parse(value) ==
    IF ~(value.ty = "int" /\ value.v \in {<<"0">>, <<"1">>, <<"2">>})
    THEN ValueError("Gender validation failed. Expected values: 0, 1, 2 .")
    ELSE Parsed(value)

ClientIDsField_parse(value) ==
    IF value.ty # "list"
    THEN ValueError("Expected list value for the field.")
    ELSE IF ~(\A i \in 1..Len(value.v) : value.v[i] = "int")
    THEN ValueError("Expected int values.")
    ELSE Parsed(value)

\* field.parse(value), by the field's class
Parse(kind, value, current) ==
    CASE kind = "CharField" -> CharField_parse(value)
      [] kind = "ArgumentsField" -> ArgumentsField_parse(value)
      [] kind = "EmailField" -> EmailField_parse(value)
      [] kind = "PhoneField" -> PhoneField_parse(value)
      [] kind = "DateField" -> DateField_parse(value)
      [] kind = "BirthDayField" -> BirthDayField_parse(value, current)
      [] kind = "GenderField" -> GenderField_parse(value)
      [] kind = "ClientIDsField" -> ClientIDsField_parse(value)

FieldKinds ==
    {"CharField", "ArgumentsField", "EmailField", "PhoneField", "DateField",
     "BirthDayField", "GenderField", "ClientIDsField"}

-----------------------------------------------------------------------------
(* Request classes *)

\* BaseField.__init__(required, nullable), with the name BaseMetaRequest gives it
Field(name, kind, required, nullable) ==
    [name |-> name, kind |-> kind, required |-> required, nullable |-> nullable]

ClientsInterestsBaseRequest ==
    << Field("client_ids", "ClientIDsField", TRUE, FALSE),
       Field("date", "DateField", FALSE, TRUE) >>

OnlineScoreBaseRequest ==
    << Field("first_name", "CharField", FALSE, TRUE),
       Field("last_name", "CharField", FALSE, TRUE),
       Field("email", "EmailField", FALSE, TRUE),
       Field("phone", "PhoneField", FALSE, TRUE),
       Field("birthday", "BirthDayField", FALSE, TRUE),
       Field("gender", "GenderField", FALSE, TRUE) >>

\* OnlineScoreBaseRequest._pairs
Pairs == << {"phone", "email"}, {"first_name", "last_name"}, {"gender", "birthday"} >>

MethodBaseRequest ==
    << Field("account", "CharField", FALSE, TRUE),
       Field("login", "CharField", TRUE, TRUE),
       Field("token", "CharField", TRUE, TRUE),
       Field("arguments", "ArgumentsField", TRUE, TRUE),
       Field("method", "CharField", TRUE, FALSE) >>

Reverse(seq) == [i \in 1..Len(seq) |-> seq[Len(seq) + 1 - i]]

\* cls.fields as BaseMetaRequest builds it: the class body's fields in the order
\* attr_dict.items() yields them, which the language leaves unspecified
FieldOrders(declared) == {declared, Reverse(declared)}

NoAttrs(fs) == [n \in {fs[i].name : i \in 1..Len(fs)} |-> Unset]

\* a raw input: a Python value and, when it is a dict, its items (Absent: no such key)
Raw(ty, m) == [ty |-> ty, m |-> m]

\* self.request[field.name]; Absent where it raises KeyError or TypeError
GetItem(raw, name) ==
    IF raw.ty = "dict" /\ name \in DOMAIN raw.m THEN raw.m[name] ELSE Absent

\* BaseRequest.error_str
error_str(field, message) == field.name \o ": " \o message

\* self._errors.append(self.error_str(field, message))
AddError(st, field, message) == [st EXCEPT !.errors = Append(@, error_str(field, message))]

\* the result of field.parse(value): setattr(self, field.name, value), or the
\* ValueError recorded
Store(field, r, st) ==
    IF r.ok
    THEN [st EXCEPT !.attrs[field.name] = r.val]
    ELSE AddError(st, field, r.msg)

\* `if value not in self.empty_values: value = field.parse(value) ...`
ParseInto(field, value, st, current) ==
    IF InEmptyValues(value) THEN st
    ELSE Store(field, Parse(field.kind, value, current), st)

\* `if value in self.empty_values and not field.nullable: ...`
CheckNullable(field, value, st) ==
    IF InEmptyValues(value) /\ ~field.nullable
    THEN AddError(st, field, "Field not be nullable.")
    ELSE st

\* the loop body of BaseRequest.clean once self.request[field.name] is looked up:
\* a missing key leaves value = None, and only a required field skips the rest
CleanItem(field, item, st, current) ==
    IF item = Absent /\ field.required
    THEN AddError(st, field, "Field is required.")
    ELSE ParseInto(field, IF item = Absent THEN None ELSE item,
                   CheckNullable(field, IF item = Absent THEN None ELSE item, st), current)

\* one iteration of the loop of BaseRequest.clean, on st = [errors, attrs]
CleanField(field, raw, st, current) == CleanItem(field, GetItem(raw, field.name), st, current)

\* a loop that stops at the first field that recorded an error
RECURSIVE CleanFrom_stop(_, _, _, _, _)
CleanFrom_stop(fs, i, raw, st, current) ==
    IF i > Len(fs) \/ st.errors # <<>> THEN st
    ELSE CleanFrom_stop(fs, i + 1, raw, CleanField(fs[i], raw, st, current), current)

RECURSIVE CleanFrom(_, _, _, _, _)
CleanFrom(fs, i, raw, st, current) ==
    IF i > Len(fs) THEN st
    ELSE CleanFrom(fs, i + 1, raw, CleanField(fs[i], raw, st, current), current)

\* BaseRequest.clean: appends to self._errors, sets attributes, returns self._errors
BaseRequest_clean(fs, raw, st, current) == CleanFrom(fs, 1, raw, st, current)

\* BaseRequest.get_not_empty_fields, on a request that is a dict (the only kind
\* the program calls it on): `field.name in self.request not in self.empty_values`
\* chains to (field.name in self.request) and (self.request not in empty_values),
\* and a dict that holds the key is not the empty dict
RECURSIVE NotEmptyFrom(_, _, _)
NotEmptyFrom(fs, i, raw) ==
    IF i > Len(fs) THEN <<>>
    ELSE (IF GetItem(raw, fs[i].name) # Absent THEN <<fs[i].name>> ELSE <<>>)
         \o NotEmptyFrom(fs, i + 1, raw)

get_not_empty_fields(fs, raw) == NotEmptyFrom(fs, 1, raw)

\* set(a list of names)
ToSet(seq) == {seq[i] : i \in 1..Len(seq)}

PairsError ==
    "Pairs ('phone', 'email') or ('first_name', 'last_name') or ('gender', 'birthday') should be not empty"

\* OnlineScoreBaseRequest.clean after super().clean()
PairsCheck(st, not_empty_fields) ==
    IF ~(\E i \in 1..Len(Pairs) : Pairs[i] \subseteq not_empty_fields)
    THEN [st EXCEPT !.errors = Append(@, PairsError)]
    ELSE st

\* OnlineScoreBaseRequest.clean
OnlineScoreBaseRequest_clean(fs, raw, st, current) ==
    PairsCheck(BaseRequest_clean(fs, raw, st, current), ToSet(get_not_empty_fields(fs, raw)))

\* self.clean(), by class
Clean(c, fs, raw, st, current) ==
    IF c = "OnlineScoreBaseRequest"
    THEN OnlineScoreBaseRequest_clean(fs, raw, st, current)
    ELSE BaseRequest_clean(fs, raw, st, current)

\* `self._has_errors = not self.clean()`: the object with the errors and
\* attributes clean() left
AfterClean(st) == [errors |-> st.errors, attrs |-> st.attrs, has_errors |-> (st.errors = <<>>)]

\* is_valid without its `if self._has_errors` guard: clean() runs on every call
is_valid_unguarded(c, fs, raw, o, current) ==
    AfterClean(Clean(c, fs, raw, [errors |-> o.errors, attrs |-> o.attrs], current))

\* BaseRequest.is_valid on the object o = [errors, attrs, has_errors]: the
\* object it leaves, whose has_errors is the value it returns
is_valid(c, fs, raw, o, current) ==
    IF o.has_errors
    THEN AfterClean(Clean(c, fs, raw, [errors |-> o.errors, attrs |-> o.attrs], current))
    ELSE o

\* BaseRequest.__init__
NewRequest(fs) == [errors |-> <<>>, attrs |-> NoAttrs(fs), has_errors |-> TRUE]

\* BaseRequest.error_message: ', '.join(self._errors)
RECURSIVE error_message(_)
error_message(errors) ==
    IF errors = <<>> THEN ""
    ELSE IF Len(errors) = 1 THEN errors[1]
    ELSE errors[1] \o ", " \o error_message(Tail(errors))

-----------------------------------------------------------------------------
(* Authentication and dispatch *)

\* hashlib.sha512(s).hexdigest(), taken to be free of collisions: the digest of
\* s is a string that names s
Sha512Hex(s) == <<"sha512(">> \o s \o <<")">>

\* current.strftime("%Y%m%d%H")
strftime(current) ==
    Pad(current.year, 4) \o Pad(current.month, 2) \o Pad(current.day, 2) \o Pad(current.hour, 2)

\* what reading request.<name> yields when clean() set no such attribute: the
\* class attribute, which is the field descriptor itself
FieldObject == Val("field", <<>>)

\* request.<name>
GetAttr(o, name) == IF o.attrs[name] = Unset THEN FieldObject ELSE o.attrs[name]

\* MethodBaseRequest.is_admin
is_admin(o) == GetAttr(o, "login") = StrV(ADMIN_LOGIN)

\* a + b + SALT on strings; TypeError when an operand is not a string
Concat(a, b) ==
    IF a.ty = "str" /\ b.ty = "str"
    THEN [raised |-> FALSE, s |-> a.v \o b.v \o SALT]
    ELSE [raised |-> TRUE, s |-> <<>>]

\* `if digest == request.token: return True` / `return False`
DigestMatches(digest, token) == StrV(digest) = token

\* the non-admin branch of check_auth, from the concatenation on
UserAuth(cat, token) ==
    IF cat.raised
    THEN [raised |-> TRUE, ok |-> FALSE]
    ELSE [raised |-> FALSE, ok |-> DigestMatches(Sha512Hex(cat.s), token)]

\* check_auth(request): whether it returned True, or that it raised
check_auth(o, current) ==
    IF is_admin(o)
    THEN [raised |-> FALSE,
          ok |-> DigestMatches(Sha512Hex(strftime(current) \o ADMIN_SALT), GetAttr(o, "token"))]
    ELSE UserAuth(Concat(GetAttr(o, "account"), GetAttr(o, "login")), GetAttr(o, "token"))

online_score == <<"o", "n", "l", "i", "n", "e", "_", "s", "c", "o", "r", "e">>
clients_interests ==
    <<"c", "l", "i", "e", "n", "t", "s", "_", "i", "n", "t", "e", "r", "e", "s", "t", "s">>

\* the handlers map of method_handler
Handlers == {online_score, clients_interests}

\* a response body: text for an error message, score for {'score': n}
NoResponse == [kind |-> "None", text |-> "", score |-> 0]
Message(text) == [kind |-> "message", text |-> text, score |-> 0]
Score(n) == [kind |-> "score", text |-> "", score |-> n]
Interests == [kind |-> "interests", text |-> "", score |-> 0]

\* `return response, code` with the context as the call leaves it; handler names
\* the handler class constructed, if any
Return(response, code, c, handler) ==
    [raised |-> FALSE, response |-> response, code |-> code, ctx |-> c, handler |-> handler]

\* an exception leaves method_handler
Raise(c, handler) ==
    [raised |-> TRUE, response |-> NoResponse, code |-> 0, ctx |-> c, handler |-> handler]

\* the context do_POST builds
NewContext == [keys |-> {"request_id"}, has |-> <<>>, nclients |-> 0]

\* OnlineScoreRequestHandler.processing_handler
OnlineScore_processing(req, fs, raw, c, score) ==
    Return(IF is_admin(req) THEN Score(42) ELSE Score(score), OK,
           [c EXCEPT !.keys = @ \cup {"has"}, !.has = get_not_empty_fields(fs, raw)],
           "OnlineScoreRequestHandler")

\* ClientsInterestsRequestHandler.processing_handler
ClientsInterests_processing(request_type, c) ==
    Return(Interests, OK,
           [c EXCEPT !.keys = @ \cup {"nclients"},
                     !.nclients = Len(GetAttr(request_type, "client_ids").v)],
           "ClientsInterestsRequestHandler")

\* AbstractRequestHandler.run_processing after init_request and is_valid
OnlineScore_run(request_type, req, fs, raw, c, score) ==
    IF ~request_type.has_errors
    THEN Return(Message(error_message(request_type.errors)), INVALID_REQUEST, c,
                "OnlineScoreRequestHandler")
    ELSE OnlineScore_processing(req, fs, raw, c, score)

ClientsInterests_run(request_type, c) ==
    IF ~request_type.has_errors
    THEN Return(Message(error_message(request_type.errors)), INVALID_REQUEST, c,
                "ClientsInterestsRequestHandler")
    ELSE ClientsInterests_processing(request_type, c)

\* handlers[request.method](request, ctx).run_processing(request.arguments)
run_processing(method, req, fieldsOf, raw, c, current, score) ==
    IF method = online_score
    THEN OnlineScore_run(is_valid("OnlineScoreBaseRequest", fieldsOf["OnlineScoreBaseRequest"], raw,
                                  NewRequest(fieldsOf["OnlineScoreBaseRequest"]), current),
                         req, fieldsOf["OnlineScoreBaseRequest"], raw, c, score)
    ELSE ClientsInterests_run(is_valid("ClientsInterestsBaseRequest",
                                       fieldsOf["ClientsInterestsBaseRequest"], raw,
                                       NewRequest(fieldsOf["ClientsInterestsBaseRequest"]), current),
                              c)

\* method_handler from the check_auth call on
Dispatch(auth, req, fieldsOf, raw, c, current, score) ==
    IF auth.raised THEN Raise(c, "none")
    ELSE IF ~auth.ok THEN Return(NoResponse, FORBIDDEN, c, "none")
    ELSE IF GetAttr(req, "arguments").ty # "dict"
    THEN Return(Message("Method arguments must be a dictionary"), INVALID_REQUEST, c, "none")
    ELSE IF GetAttr(req, "method").v \notin Handlers THEN Return(NoResponse, NOT_FOUND, c, "none")
    ELSE run_processing(GetAttr(req, "method").v, req, fieldsOf, raw, c, current, score)

\* method_handler once request.is_valid() has run on the envelope
Authenticate(req, fieldsOf, raw, c, current, score) ==
    IF ~req.has_errors
    THEN Return(Message(error_message(req.errors)), INVALID_REQUEST, c, "none")
    ELSE Dispatch(check_auth(req, current), req, fieldsOf, raw, c, current, score)

\* method_handler(request, ctx, settings): b is request['body'], args the items of
\* b['arguments'] when that is a dict, score what random.randrange draws
method_handler(b, args, fieldsOf, c, current, score) ==
    Authenticate(is_valid("MethodBaseRequest", fieldsOf["MethodBaseRequest"], b,
                          NewRequest(fieldsOf["MethodBaseRequest"]), current),
                 fieldsOf, Raw("dict", args), c, current, score)

-----------------------------------------------------------------------------
(* The clock *)

\* the instant the run starts at
Epoch == [year |-> 2020, month |-> 12, day |-> 31, hour |-> 23]

\* the clock one hour later
NextHour(t) ==
    IF t.hour < 23 THEN [t EXCEPT !.hour = @ + 1]
    ELSE IF t.day < DaysInMonth(t.month, t.year) THEN [t EXCEPT !.hour = 0, !.day = @ + 1]
    ELSE IF t.month < 12 THEN [t EXCEPT !.hour = 0, !.day = 1, !.month = @ + 1]
    ELSE [year |-> t.year + 1, month |-> 1, day |-> 1, hour |-> 0]

\* time passes between any two steps of the program
Tick ==
    /\ ticks < MaxTicks
    /\ now' = NextHour(now)
    /\ ticks' = ticks + 1
    /\ UNCHANGED <<objVars, srvVars, fldVars, stoVars>>

InitClock == now = Epoch /\ ticks = 0

-----------------------------------------------------------------------------
(* Inputs *)

Chars_A == <<"A">>
Chars_B == <<"B">>
GoodEmail == StrV(<<"a", "@", "b", ".", "c">>)
BadEmail == StrV(<<"a", "@">>)
PhoneDigits == <<"7", "9", "9", "9", "1", "2", "3", "4", "5", "6", "7">>
GoodPhone == StrV(PhoneDigits)
BadPhone == StrV(<<"7", "1">>)
\* a birthday AGE_LIMIT years before the year the run starts in
EdgeBirthday == StrV(Pad(1, 2) \o <<".">> \o Pad(1, 2) \o <<".">> \o Pad(Epoch.year - AGE_LIMIT, 4))
BadDate == StrV(<<"3", "1", ".", "0", "2", ".", "2", "0", "0", "0">>)
GoodDate == StrV(<<"2", "9", ".", "0", "2", ".", "2", "0", "0", "0">>)

\* values an online_score arguments map may hold under each key
OnlineScoreSamples(name) ==
    CASE name = "first_name" -> {Absent, StrV(<<>>), StrV(Chars_A)}
      [] name = "last_name" -> {Absent, None, StrV(Chars_B), IntV(<<"5">>)}
      [] name = "email" -> {Absent, StrV(<<>>), GoodEmail, BadEmail}
      [] name = "phone" -> {Absent, None, GoodPhone, BadPhone}
      [] name = "birthday" -> {Absent, None, EdgeBirthday, BadDate}
      [] name = "gender" -> {Absent, ListV(<<>>), IntV(<<"1">>), StrV(<<"1">>)}

ClientsInterestsSamples(name) ==
    CASE name = "client_ids" ->
            {Absent, None, ListV(<<>>), ListV(<<"int", "int">>), ListV(<<"int", "str">>),
             StrV(<<"1">>)}
      [] name = "date" -> {Absent, None, GoodDate, BadDate, IntV(<<"5">>)}

MethodSamples(name) ==
    CASE name = "account" -> {Absent, None, StrV(<<"h">>)}
      [] name = "login" -> {Absent, StrV(<<>>), StrV(<<"u">>), IntV(<<"5">>)}
      [] name = "token" -> {Absent, None, StrV(<<"t">>)}
      [] name = "arguments" -> {Absent, DictV(<<>>), DictV(<<"k">>), ListV(<<"int">>)}
      [] name = "method" -> {Absent, StrV(<<>>), StrV(<<"m">>), IntV(<<"5">>)}

\* a request class of one field with any flags: BaseField's defaults make every
\* combination of required and nullable a descriptor the framework accepts
OneFieldRequest(kind, required, nullable) == << Field("value", kind, required, nullable) >>

OneFieldSamples(name) == {Absent, None, StrV(<<>>), StrV(<<"x">>), IntV(<<"5">>)}

Names(fs) == {fs[i].name : i \in 1..Len(fs)}

\* the inputs that are not mappings
NonDicts == {Raw("none", <<>>), Raw("list", <<>>), Raw("int", <<>>), Raw("str", <<>>)}

OnlineScoreMaps ==
    [first_name : OnlineScoreSamples("first_name"), last_name : OnlineScoreSamples("last_name"),
     email : OnlineScoreSamples("email"), phone : OnlineScoreSamples("phone"),
     birthday : OnlineScoreSamples("birthday"), gender : OnlineScoreSamples("gender")]

ClientsInterestsMaps ==
    [client_ids : ClientsInterestsSamples("client_ids"), date : ClientsInterestsSamples("date")]

MethodMaps ==
    [account : MethodSamples("account"), login : MethodSamples("login"),
     token : MethodSamples("token"), arguments : MethodSamples("arguments"),
     method : MethodSamples("method")]

OneFieldMaps == [value : OneFieldSamples("value")]

Built(c, declared, raws) == {[cls |-> c, declared |-> declared, raw |-> r] : r \in raws}

\* the classes and raw inputs a request object is built from
RequestInputs ==
    Built("OnlineScoreBaseRequest", OnlineScoreBaseRequest,
          {Raw("dict", m) : m \in OnlineScoreMaps})
    \cup Built("ClientsInterestsBaseRequest", ClientsInterestsBaseRequest,
               {Raw("dict", m) : m \in ClientsInterestsMaps})
    \cup Built("MethodBaseRequest", MethodBaseRequest,
               {Raw("dict", m) : m \in MethodMaps} \cup NonDicts)
    \cup UNION {Built("OneFieldRequest", OneFieldRequest("CharField", rq, nl),
                      {Raw("dict", m) : m \in OneFieldMaps} \cup NonDicts) :
                rq \in BOOLEAN, nl \in BOOLEAN}

-----------------------------------------------------------------------------
(* One request object and the is_valid() calls made on it *)

\* the other parts of the program at rest
IdleRequest ==
    /\ cls = "none" /\ fields = <<>> /\ request = Raw("none", <<>>)
    /\ self = <<>> /\ history = <<>>

IdleServer ==
    /\ pc = "off" /\ body = Raw("none", <<>>) /\ arguments = <<>>
    /\ ctx = <<>> /\ outcome = <<>>

IdleField == fkind = "none" /\ fvalue = None /\ fresult = <<>>

IdleStore ==
    /\ db = <<>> /\ backend = "none" /\ op = <<>> /\ attempts = 0 /\ ret = "none"

\* request = Class(raw): BaseRequest.__init__
InitRequest ==
    /\ InitClock
    /\ \E in \in RequestInputs : \E fs \in FieldOrders(in.declared) :
        /\ cls = in.cls
        /\ fields = [c \in {in.cls} |-> fs]
        /\ request = in.raw
        /\ self = NewRequest(fs)
    /\ history = <<>>
    /\ IdleServer /\ IdleField /\ IdleStore

\* request.is_valid(); history keeps what the call returned, the errors it
\* left and the year the clock showed
IsValid ==
    /\ cls # "none"
    /\ Len(history) < MaxCalls
    /\ self' = is_valid(cls, fields[cls], request, self, now)
    /\ history' = Append(history, [ret |-> self'.has_errors, errors |-> self'.errors,
                                   year |-> now.year])
    /\ UNCHANGED <<now, ticks, cls, fields, request, srvVars, fldVars, stoVars>>

NextRequest == IsValid \/ Tick

SpecRequest == InitRequest /\ [][NextRequest]_vars

-----------------------------------------------------------------------------
(* The dispatcher: requests arrive one at a time and method_handler runs on each *)

ArgKeys ==
    <<"first_name", "last_name", "email", "phone", "birthday", "gender", "client_ids", "date">>

NoArgs == [k \in ToSet(ArgKeys) |-> Absent]

\* the arguments maps sent to the dispatcher
ArgSamples ==
    { NoArgs,
      [NoArgs EXCEPT !["phone"] = GoodPhone, !["email"] = GoodEmail],
      [NoArgs EXCEPT !["phone"] = None, !["email"] = StrV(<<>>)],
      [NoArgs EXCEPT !["first_name"] = StrV(Chars_A)],
      [NoArgs EXCEPT !["first_name"] = StrV(Chars_A), !["last_name"] = IntV(<<"5">>)],
      [NoArgs EXCEPT !["gender"] = IntV(<<"1">>), !["birthday"] = EdgeBirthday],
      [NoArgs EXCEPT !["client_ids"] = ListV(<<"int", "int">>)],
      [NoArgs EXCEPT !["client_ids"] = ListV(<<"int", "int">>), !["date"] = BadDate],
      [NoArgs EXCEPT !["client_ids"] = ListV(<<>>), !["date"] = GoodDate] }

\* the keys a map holds, as the dict value that carries them
RECURSIVE KeysFrom(_, _)
KeysFrom(args, i) ==
    IF i > Len(ArgKeys) THEN <<>>
    ELSE (IF args[ArgKeys[i]] # Absent THEN <<ArgKeys[i]>> ELSE <<>>) \o KeysFrom(args, i + 1)

\* body['arguments'] with the items it holds: a dict of ArgSamples, a dict of one
\* key no schema knows, or no dict at all
ArgumentsInputs ==
    {[val |-> DictV(KeysFrom(a, 1)), items |-> a] : a \in ArgSamples}
    \cup {[val |-> v, items |-> NoArgs] : v \in {Absent, None, DictV(<<"k">>), ListV(<<"int">>)}}

AccountChars == <<"h">>
LoginChars == <<"u">>

TokenSamples ==
    { Absent, StrV(<<>>), StrV(<<"t">>),
      StrV(Sha512Hex(AccountChars \o LoginChars \o SALT)),
      StrV(Sha512Hex(strftime(Epoch) \o ADMIN_SALT)),
      StrV(Sha512Hex(strftime(NextHour(Epoch)) \o ADMIN_SALT)) }

\* the envelopes sent to the dispatcher, but for their arguments
Envelopes ==
    [account : {Absent, None, StrV(<<>>), StrV(AccountChars)},
     login : {Absent, StrV(<<>>), StrV(LoginChars), StrV(ADMIN_LOGIN)},
     token : TokenSamples,
     method : {Absent, StrV(<<>>), StrV(online_score), StrV(clients_interests),
               StrV(<<"m">>), IntV(<<"5">>)}]

Envelope(e, argumentsVal) ==
    [account |-> e.account, login |-> e.login, token |-> e.token,
     arguments |-> argumentsVal, method |-> e.method]

\* what random.randrange(0, 100) may draw: the ends of its range
Scores == {0, 99}

InitServer ==
    /\ InitClock
    /\ \E r \in BOOLEAN :
        fields = [c \in {"MethodBaseRequest", "OnlineScoreBaseRequest", "ClientsInterestsBaseRequest"} |->
                    LET declared == CASE c = "MethodBaseRequest" -> MethodBaseRequest
                                      [] c = "OnlineScoreBaseRequest" -> OnlineScoreBaseRequest
                                      [] OTHER -> ClientsInterestsBaseRequest
                    IN  IF r THEN Reverse(declared) ELSE declared]
    /\ pc = "idle" /\ body = Raw("none", <<>>) /\ arguments = NoArgs
    /\ ctx = NewContext /\ outcome = <<>>
    /\ cls = "none" /\ request = Raw("none", <<>>) /\ self = <<>> /\ history = <<>>
    /\ IdleField /\ IdleStore

\* a request body arrives (do_POST: json.loads) with a fresh context
Receive ==
    /\ pc = "idle"
    /\ \/ \E e \in Envelopes : \E a \in ArgumentsInputs :
            /\ body' = Raw("dict", Envelope(e, a.val))
            /\ arguments' = a.items
       \/ /\ body' \in NonDicts
          /\ arguments' = NoArgs
    /\ ctx' = NewContext
    /\ outcome' = <<>>
    /\ pc' = "received"
    /\ UNCHANGED <<now, ticks, objVars, fldVars, stoVars>>

\* response, code = method_handler({"body": request, ...}, context, store)
MethodHandler ==
    /\ pc = "received"
    /\ \E score \in Scores :
        outcome' = [res |-> method_handler(body, arguments, fields, ctx, now, score), at |-> now]
    /\ ctx' = outcome'.res.ctx
    /\ pc' = "done"
    /\ UNCHANGED <<now, ticks, body, arguments, objVars, fldVars, stoVars>>

\* do_POST writes the response; the server takes the next request
Respond ==
    /\ pc = "done"
    /\ pc' = "idle"
    /\ body' = Raw("none", <<>>) /\ arguments' = NoArgs
    /\ ctx' = NewContext /\ outcome' = <<>>
    /\ UNCHANGED <<now, ticks, objVars, fldVars, stoVars>>

NextServer == Receive \/ MethodHandler \/ Respond \/ Tick

SpecServer == InitServer /\ [][NextServer]_vars

-----------------------------------------------------------------------------
(* One field and the values handed to its parse *)

\* birthdays in DD.MM.YYYY form around the age limit, as strftime('%d.%m.%Y') writes them
Birthdays ==
    {StrV(Pad(d, 2) \o <<".">> \o Pad(m, 2) \o <<".">> \o Pad(y, 4)) :
        d \in {1, 31}, m \in {1, 12},
        y \in (Epoch.year - AGE_LIMIT - 1)..(Epoch.year - AGE_LIMIT + 1)}

FieldValues ==
    Birthdays \cup
    {None, StrV(<<>>), StrV(Chars_A), IntV(<<"0">>), IntV(<<"5">>), IntV(PhoneDigits),
     GoodEmail, BadEmail, GoodPhone, BadPhone, GoodDate, BadDate,
     StrV(<<"1", ".", "1", ".", "1", "9", "5", "0">>),
     DictV(<<>>), DictV(<<"k">>), ListV(<<>>), ListV(<<"int", "int">>), ListV(<<"int", "str">>)}

\* no parse made yet
NotParsed == [done |-> FALSE, r |-> Parsed(None), current |-> Epoch]

InitField ==
    /\ InitClock
    /\ fkind \in FieldKinds
    /\ fvalue \in FieldValues
    /\ fresult = NotParsed
    /\ IdleRequest /\ IdleServer /\ IdleStore

\* Field().parse(value), with the clock as it stands
ParseValue ==
    /\ fkind # "none"
    /\ ~(fresult.done /\ fresult.current = now)
    /\ fresult' = [done |-> TRUE, r |-> Parse(fkind, fvalue, now), current |-> now]
    /\ UNCHANGED <<now, ticks, fkind, fvalue, objVars, srvVars, stoVars>>

NextField == ParseValue \/ Tick

SpecField == InitField /\ [][NextField]_vars

-----------------------------------------------------------------------------
(* The store client: Storage(backend).cache_get / cache_set *)

\* Storage.MAX_RETRIES
MAX_RETRIES == 3

Keys == {"k1", "k2"}
Values == {"v1", "v2"}

\* whether a call to the backend can complete / can raise ConnectionError:
\* an "up" backend always answers, a "down" one raises on every call
CanAnswer(b) == b # "down"
CanRaise(b) == b # "up"

\* a loop that makes one attempt too many
Exhausted_late(n) == n >= MAX_RETRIES + 1

\* the retry loop gives up once this many calls have raised
Exhausted(n) == n >= MAX_RETRIES

\* a cache_set that reports success after the last failed attempt
GiveUp_true(o) == IF o.name = "set" THEN "True" ELSE "None"

\* what cache_get / cache_set return once every attempt has raised
GiveUp(o) == "None"

InitStore ==
    /\ InitClock
    /\ db = [k \in Keys |-> "nil"]
    /\ backend \in {"up", "flaky", "down"}
    /\ op = [name |-> "none", key |-> "k1", value |-> "nil", completed |-> FALSE]
    /\ attempts = 0
    /\ ret = "none"
    /\ IdleRequest /\ IdleServer /\ IdleField

\* storage.cache_get(key) is called
CacheGet ==
    /\ backend # "none" /\ ret # "pending"
    /\ \E k \in Keys : op' = [name |-> "get", key |-> k, value |-> "nil", completed |-> FALSE]
    /\ attempts' = 0
    /\ ret' = "pending"
    /\ UNCHANGED <<now, ticks, db, backend, objVars, srvVars, fldVars>>

\* storage.cache_set(key, value) is called
CacheSet ==
    /\ backend # "none" /\ ret # "pending"
    /\ \E k \in Keys : \E v \in Values :
        op' = [name |-> "set", key |-> k, value |-> v, completed |-> FALSE]
    /\ attempts' = 0
    /\ ret' = "pending"
    /\ UNCHANGED <<now, ticks, db, backend, objVars, srvVars, fldVars>>

\* one pass of the retry loop in which the backend answers: cache_get returns
\* the stored value (None for a missing key), cache_set returns True
AttemptAnswers ==
    /\ ret = "pending" /\ CanAnswer(backend)
    /\ attempts' = attempts + 1
    /\ op' = [op EXCEPT !.completed = TRUE]
    /\ IF op.name = "get"
       THEN /\ ret' = (IF db[op.key] = "nil" THEN "None" ELSE db[op.key])
            /\ db' = db
       ELSE /\ ret' = "True"
            /\ db' = [db EXCEPT ![op.key] = op.value]
    /\ UNCHANGED <<now, ticks, backend, objVars, srvVars, fldVars>>

\* one pass of the retry loop in which the backend raises ConnectionError: the
\* loop goes on, or after the last attempt the call returns
AttemptRaises ==
    /\ ret = "pending" /\ CanRaise(backend)
    /\ attempts' = attempts + 1
    /\ ret' = (IF Exhausted(attempts + 1) THEN GiveUp(op) ELSE "pending")
    /\ UNCHANGED <<now, ticks, db, backend, op, objVars, srvVars, fldVars>>

NextStore == CacheGet \/ CacheSet \/ AttemptAnswers \/ AttemptRaises

SpecStore == InitStore /\ [][NextStore]_vars

-----------------------------------------------------------------------------
(* Properties of a request object (SpecRequest) *)

\* every message clean() can put after a field's name
Messages ==
    {"Field is required.", "Field not be nullable.", "Expected str value the for field",
     "Expected dict value for the field", "Email validation failed",
     "Phone number validation failed", "Date validation failed",
     "Age limit validation failed. Maximum value is 70 years.",
     "Gender validation failed. Expected values: 0, 1, 2 .",
     "Expected list value for the field.", "Expected int values."}

\* the errors of a list that name the field
ErrorsNaming(errors, name) ==
    LET names(e) == \E m \in Messages : e = name \o ": " \o m
    IN  SelectSeq(errors, names)

\* the errors of a list that do not name the field
ErrorsNotNaming(errors, name) ==
    LET other(e) == ~(\E m \in Messages : e = name \o ": " \o m)
    IN  SelectSeq(errors, other)

Cleaned == cls # "none" /\ Len(history) >= 1

\* the fields of the object's class
ClassFields == {fields[cls][i] : i \in 1..Len(fields[cls])}

KeyAbsent(name) == GetItem(request, name) = Absent

\* the field names present in the raw input with a non-empty value
NonEmptyNames ==
    {f.name : f \in {g \in ClassFields :
                        ~KeyAbsent(g.name) /\ ~InEmptyValues(GetItem(request, g.name))}}

SomePairPresent == \E i \in 1..Len(Pairs) : Pairs[i] \subseteq NonEmptyNames

\* C2: an online-score request is valid only if the names present with a
\* non-empty value cover one of the pairs; when none is covered, exactly one
\* pairs-violation error is recorded and the request is invalid
C2_PairsNeedNonEmptyValues ==
    (Cleaned /\ cls = "OnlineScoreBaseRequest") =>
        /\ history[1].ret => SomePairPresent
        /\ ~SomePairPresent =>
            /\ ~history[1].ret
            /\ Len(SelectSeq(history[1].errors, LAMBDA e : e = PairsError)) = 1

\* a value the field's class parses
GoodValue(kind) ==
    CASE kind = "CharField" -> StrV(<<"x">>)
      [] kind = "ArgumentsField" -> DictV(<<"k">>)
      [] kind = "ClientIDsField" -> ListV(<<"int">>)
      [] OTHER -> None

\* the raw input with the field supplied correctly
Supplied(f) == Raw("dict", [n \in Names(fields[cls]) |->
                               IF n = f.name THEN GoodValue(f.kind) ELSE GetItem(request, n)])

\* the errors of the first clean() had f been supplied correctly
ErrorsWith(f) ==
    Clean(cls, fields[cls], Supplied(f), [errors |-> <<>>, attrs |-> NoAttrs(fields[cls])],
          [Epoch EXCEPT !.year = history[1].year]).errors

\* C3: a required field whose key is absent gets exactly one error, naming it,
\* and no parse (no attribute); the other fields are all evaluated: their errors
\* are those recorded had the field been supplied correctly
C3_MissingRequiredField ==
    Cleaned =>
        \A f \in ClassFields : (f.required /\ KeyAbsent(f.name)) =>
            /\ ErrorsNaming(history[1].errors, f.name) = <<error_str(f, "Field is required.")>>
            /\ self.attrs[f.name] = Unset
            /\ ErrorsNotNaming(history[1].errors, f.name) = ErrorsNotNaming(ErrorsWith(f), f.name)

\* a required field is missing while a field after it and a field before it
\* in the class's order each recorded an error
C3_Witness ==
    /\ Cleaned
    /\ \E i, j, k \in 1..Len(fields[cls]) :
        /\ i < j /\ j < k
        /\ fields[cls][j].required /\ KeyAbsent(fields[cls][j].name)
        /\ ErrorsNaming(history[1].errors, fields[cls][i].name) # <<>>
        /\ ErrorsNaming(history[1].errors, fields[cls][k].name) # <<>>

\* C4: a field that is not required and whose key is absent gets no error and
\* no attribute, whatever its nullable flag
C4_MissingOptionalField ==
    Cleaned =>
        \A f \in ClassFields : (~f.required /\ KeyAbsent(f.name)) =>
            /\ ErrorsNaming(history[1].errors, f.name) = <<>>
            /\ self.attrs[f.name] = Unset

\* call i of is_valid() returned what the first call returned, true iff it left
\* no errors, and left the errors the first call left
SameAsFirst(i) ==
    /\ history[i].ret = history[1].ret
    /\ history[i].ret = (history[i].errors = <<>>)
    /\ history[i].errors = history[1].errors

\* C10 as stated: every is_valid() call on an object returns the same boolean,
\* true iff the error list is empty, and leaves the error list of the first call
C10_RepeatedCallsAgree ==
    cls # "none" => \A i \in 1..Len(history) : SameAsFirst(i)

\* C10 as amended: the same, for calls made while the clock shows the same year
C10_RepeatedCallsAgreeWithinYear ==
    cls # "none" =>
        \A i \in 1..Len(history) :
            (\A k \in 1..i : history[k].year = history[1].year) => SameAsFirst(i)

\* is_valid() was called again, within one year, on an object whose first
\* validation recorded errors, and on one that was valid
C10_Witness ==
    /\ cls = "OnlineScoreBaseRequest"
    /\ Len(history) = MaxCalls
    /\ \A k \in 1..Len(history) : history[k].year = history[1].year
    /\ Len(history[1].errors) >= 2

-----------------------------------------------------------------------------
(* Properties of the dispatcher (SpecServer) *)

Handled == pc = "done"

\* the envelope as MethodBaseRequest.is_valid() left it when the handler ran
Validated ==
    is_valid("MethodBaseRequest", fields["MethodBaseRequest"], body,
             NewRequest(fields["MethodBaseRequest"]), outcome.at)

\* the body passed envelope validation
EnvelopeValid == Validated.has_errors

\* the characters of a string field of the body; none when it is absent or empty
CharsOf(name) ==
    IF GetItem(body, name).ty = "str" THEN GetItem(body, name).v ELSE <<>>

\* the digest the token is to equal: of the hour the handler ran in and
\* ADMIN_SALT for the login 'admin', of account + login + SALT for any other
ExpectedDigest ==
    IF GetItem(body, "login") = StrV(ADMIN_LOGIN)
    THEN Sha512Hex(strftime(outcome.at) \o ADMIN_SALT)
    ELSE Sha512Hex(CharsOf("account") \o CharsOf("login") \o SALT)

TokenMatches == GetItem(body, "token") = StrV(ExpectedDigest)

\* C1: on a valid envelope whose token is not the expected digest the handler
\* returns (None, FORBIDDEN), constructs no method handler and leaves ctx as it
\* was; it returns OK only when the token is the digest
C1_WrongTokenIsForbidden ==
    (Handled /\ EnvelopeValid) =>
        /\ ~TokenMatches => outcome.res = Return(NoResponse, FORBIDDEN, NewContext, "none")
        /\ (~outcome.res.raised /\ outcome.res.code = OK) => TokenMatches

\* check_auth returned True on the validated envelope
Authenticated ==
    /\ EnvelopeValid
    /\ ~check_auth(Validated, outcome.at).raised
    /\ check_auth(Validated, outcome.at).ok

\* C5: on a valid, authenticated envelope whose method is not registered the
\* handler returns (None, NOT_FOUND) and runs no method handler, whatever
\* arguments the envelope validation accepted
C5_UnknownMethodIsNotFound ==
    (Handled /\ Authenticated /\ CharsOf("method") \notin Handlers) =>
        outcome.res = Return(NoResponse, NOT_FOUND, NewContext, "none")

\* C9: whatever the body, method_handler returns a status among 200, 403, 404,
\* 422 and raises nothing
C9_HandlerIsTotal ==
    Handled =>
        /\ ~outcome.res.raised
        /\ outcome.res.code \in {OK, FORBIDDEN, NOT_FOUND, INVALID_REQUEST}

-----------------------------------------------------------------------------
(* Properties of the birthday field (SpecField) *)

BirthdayParsed == fkind = "BirthDayField" /\ fresult.done /\ fvalue \in Birthdays

\* the birthday as DD.MM.YYYY
Formatted(d, m, y) == StrV(Pad(d, 2) \o <<".">> \o Pad(m, 2) \o <<".">> \o Pad(y, 4))

\* on the current date more than AGE_LIMIT years have passed since day d of
\* month m of year y
AgeExceedsLimit(d, m, y, current) ==
    \/ current.year - y > AGE_LIMIT
    \/ /\ current.year - y = AGE_LIMIT
       /\ \/ current.month > m
          \/ current.month = m /\ current.day > d

BirthYears == (Epoch.year - AGE_LIMIT - 1)..(Epoch.year - AGE_LIMIT + 1)

\* C8 as stated: a well-formed birthday is rejected when the age it implies on
\* the current date exceeds 70 years and accepted when that age is 70 years or less
C8_RejectsByAge ==
    BirthdayParsed =>
        \A d \in 1..31, m \in 1..12, y \in BirthYears :
            fvalue = Formatted(d, m, y) =>
                (fresult.r.ok <=> ~AgeExceedsLimit(d, m, y, fresult.current))

\* C8 as amended: a well-formed birthday is rejected when the current year minus
\* the year of birth exceeds 70, and is accepted otherwise, whatever the month
\* and the day
C8_RejectsByYearDifference ==
    BirthdayParsed =>
        \A d \in 1..31, m \in 1..12, y \in BirthYears :
            fvalue = Formatted(d, m, y) =>
                /\ fresult.current.year - y > AGE_LIMIT =>
                    fresult.r = ValueError("Age limit validation failed. Maximum value is 70 years.")
                /\ fresult.current.year - y <= AGE_LIMIT =>
                    fresult.r = Parsed(DateTime(y, m, d))

\* a birthday in the year AGE_LIMIT before the current one was accepted, and one
\* of the year before that rejected
C8_Witness ==
    /\ BirthdayParsed
    /\ \/ fresult.r.ok /\ fvalue = Formatted(1, 1, fresult.current.year - AGE_LIMIT)
       \/ ~fresult.r.ok /\ fvalue = Formatted(31, 12, fresult.current.year - AGE_LIMIT - 1)

-----------------------------------------------------------------------------
(* Properties of the store client (SpecStore) *)

\* C6: against a backend whose get raises on every attempt, cache_get makes
\* MAX_RETRIES calls, no fewer and no more, then returns None, which is what a
\* miss returns
C6_CacheGetRetries ==
    (backend = "down" /\ op.name = "get") =>
        /\ ret = "pending" => attempts < MAX_RETRIES
        /\ ret # "pending" => (attempts = MAX_RETRIES /\ ret = "None" /\ ~op.completed)

C6_Witness == backend = "down" /\ op.name = "get" /\ ret = "None" /\ attempts = MAX_RETRIES

\* C7: cache_set returns True only when a set call completed; against a backend
\* whose set raises on every attempt it makes MAX_RETRIES calls and returns None
C7_CacheSetReportsFailure ==
    /\ (op.name = "set" /\ ret = "True") => (op.completed /\ db[op.key] = op.value)
    /\ (backend = "down" /\ op.name = "set") =>
        /\ ret = "pending" => attempts < MAX_RETRIES
        /\ ret # "pending" => (attempts = MAX_RETRIES /\ ret = "None")

C7_Witness == backend = "down" /\ op.name = "set" /\ ret = "None" /\ attempts = MAX_RETRIES

====
